---- MODULE Spec2Model ----
(***************************************************************************)
(* A model of frontend/src/lib/WorkflowParser.ts (kfp-tekton): the         *)
(* reconstruction of the run-time graph of a Tekton pipeline run from its  *)
(* status document (createRuntimeGraph, checkParams, decodeParam,          *)
(* getStatus) and the resolution of artifact locations                     *)
(* (getNodeInputOutputArtifacts).                                          *)
(*                                                                         *)
(* JavaScript strings are sequences of one-character strings, so that      *)
(* substring, indexOf and split are computed as the code computes them.    *)
(* The JavaScript value undefined is the one-element sequence Undefined,   *)
(* which no string of the model equals; it is also what dagre's graphlib   *)
(* turns an undefined node id into (the node named "undefined").           *)
(***************************************************************************)
EXTENDS Integers, Sequences, FiniteSets, TLC

VARIABLES
  workflow,          \* the status document handed to the parser (mutated in place)
  graph,             \* the dagre graph createRuntimeGraph returns
  statusMap,         \* createRuntimeGraph's index: task name -> run record reference
  conditionTasks,    \* createRuntimeGraph's list of when-guard-only tasks
  pc,                \* "start", "returned" or "raised" (a TypeError left the call)
  paramString,       \* decodeParam's argument
  decoded,           \* decodeParam's result
  nodeId,            \* getNodeInputOutputArtifacts' nodeId argument
  cachedPipelineRun, \* getNodeInputOutputArtifacts' cachedPipelineRun argument
  artifacts          \* getNodeInputOutputArtifacts' result

vars == <<workflow, graph, statusMap, conditionTasks, pc, paramString, decoded,
          nodeId, cachedPipelineRun, artifacts>>

----------------------------------------------------------------------------
(* JavaScript values and string primitives *)

Undefined == <<"undefined">>

\* JavaScript truthiness of a string-or-undefined value.
Truthy(v) == v # Undefined /\ v # <<>>

Min(a, b) == IF a < b THEN a ELSE b

Max(a, b) == IF a < b THEN b ELSE a

Clamp(i, n) == Max(0, Min(i, n))

\* const v = x; F(v): x is evaluated once and F applied to its value.
With(x, F(_)) == CHOOSE r \in {F(v) : v \in {x}} : TRUE

\* s.substring(a, b): both indices clamped to 0..length, swapped when a > b.
Substring(s, a, b) ==
  LET lo == Min(Clamp(a, Len(s)), Clamp(b, Len(s)))
      hi == Max(Clamp(a, Len(s)), Clamp(b, Len(s)))
  IN  SubSeq(s, lo + 1, hi)

\* s.substring(a)
SubstringFrom(s, a) == Substring(s, a, Len(s))

\* s.indexOf(pat): the 0-based index of the first occurrence, -1 when none.
IndexOf(s, pat) ==
  LET hits == {i \in 0..(Len(s) - Len(pat)) : SubSeq(s, i + 1, i + Len(pat)) = pat}
  IN  IF hits = {} THEN -1 ELSE CHOOSE i \in hits : \A j \in hits : i <= j

\* s.split(c) for a one-character separator c.
RECURSIVE Split(_, _)
Split(s, c) ==
  With(IndexOf(s, <<c>>), LAMBDA i :
    IF i = -1 THEN <<s>>
    ELSE <<SubSeq(s, 1, i)>> \o With(SubSeq(s, i + 2, Len(s)), LAMBDA rest : Split(rest, c)))

\* The string literals of the source, as character sequences.
ParamsPrefix == <<"$", "(", "p", "a", "r", "a", "m", "s", ".">>

TasksPrefix == <<"$", "(", "t", "a", "s", "k", "s", ".">>

ResultsInfix == <<".", "r", "e", "s", "u", "l", "t", "s", ".">>

DollarParen == <<"$", "(">>

CloseParen == <<")">>

----------------------------------------------------------------------------
(* decodeParam *)

EmptyReference == [task |-> Undefined, param |-> Undefined]

decodeParam(s) ==
  IF /\ Substring(s, 0, 9) = ParamsPrefix
     /\ SubstringFrom(s, Len(s) - 1) = CloseParen
  THEN [task |-> <<>>, param |-> Substring(s, 9, Len(s) - 1)]
  ELSE IF IndexOf(s, DollarParen) # -1 /\ IndexOf(s, CloseParen) # -1
  THEN LET paramSplit == Split(s, ".")
           last == paramSplit[Len(paramSplit)]
       IN  [task  |-> IF Len(paramSplit) >= 2 THEN paramSplit[2] ELSE Undefined,
            param |-> Substring(last, 0, Len(last) - 1)]
  ELSE EmptyReference

----------------------------------------------------------------------------
(* The status document.                                                    *)
(*                                                                         *)
(* workflow.status.keys is the set of keys the status object carries.      *)
(* A run record is [id, pipelineTaskName, taskRunId, hasStatus, status];   *)
(* id is its key in status.taskRuns or status.runs, taskRunId the field    *)
(* createRuntimeGraph adds.  A record's status is [hasConditions,          *)
(* conditions, podName, taskResults, hasTaskSpec, hasParams, params]; a    *)
(* condition is [type, reason].  A declared task is [name, params, when,   *)
(* conditions, runAfter, command0, hasArgs, args, cacheEnabled]: command0  *)
(* is taskSpec.steps[0].command[0], args is taskSpec.steps[0].args and     *)
(* cacheEnabled the value of the label pipelines.kubeflow.org/cache_enabled*)
(* of its taskSpec.  workflow.metadata is [name, hasAnnotations,           *)
(* annotations].                                                           *)
(***************************************************************************)

NodePhase_PENDING == "Pending"

NodePhase_CONDITIONCHECKFAILED == "ConditionCheckFailed"

NodePhase_SUCCEEDED == "Succeeded"

NodePhase_COMPLETED == "Completed"

ExitHandlerColoring == <<"#fef7f0", "">>

\* statusToBgColor(statusToPhase(status), ''): a colour per phase.
statusToBgColor(status) == <<"bg", status>>

AnyTask == <<"a", "n", "y", "-", "t", "a", "s", "k">>

TaskListFlag == <<"-", "-", "t", "a", "s", "k", "L", "i", "s", "t">>

ConditionFlag == <<"-", "c">>

ResultsMarker == <<"r", "e", "s", "u", "l", "t", "s", "_">>

OutputMarker == <<"_", "o", "u", "t", "p", "u", "t">>

\* dagre.graphlib.Graph: node id -> label, and a set of (v, w) pairs.
EmptyGraph == [nodes |-> <<>>, edges |-> {}]

\* The label of a node that setEdge created and no setNode has labelled.
NoLabel == [committed |-> FALSE, label |-> Undefined,
            statusColoring |-> <<"", "">>, icon |-> ""]

\* Map.set / graph's node table: f with key k bound to v.
SetKey(f, k, v) == [x \in (DOMAIN f) \cup {k} |-> IF x = k THEN v ELSE f[x]]

\* graph.setNode(id, label)
setNode(g, id, label) == [g EXCEPT !.nodes = SetKey(g.nodes, id, label)]

\* graph.setEdge(v, w): the edge, and both end nodes unless they exist.
setEdge(g, v, w) ==
  [nodes |-> [x \in (DOMAIN g.nodes) \cup {v, w} |->
                IF x \in DOMAIN g.nodes THEN g.nodes[x] ELSE NoLabel],
   edges |-> g.edges \cup {<<v, w>>}]

\* setEdges with a setEdge that resets the label of a node it touches.
setEdgesResettingLabels(g, es) ==
  [nodes |-> [x \in (DOMAIN g.nodes) \cup {e[1] : e \in es} \cup {e[2] : e \in es} |->
                IF x \in DOMAIN g.nodes /\ x \notin {e[1] : e \in es} \cup {e[2] : e \in es}
                THEN g.nodes[x] ELSE NoLabel],
   edges |-> g.edges \cup es]

\* for (const edge of edges) graph.setEdge(edge.parent, edge.child)
setEdges(g, es) ==
  [nodes |-> [x \in (DOMAIN g.nodes) \cup {e[1] : e \in es} \cup {e[2] : e \in es} |->
                IF x \in DOMAIN g.nodes THEN g.nodes[x] ELSE NoLabel],
   edges |-> g.edges \cup es]

\* statusMap.get(name) is truthy
Has(sm, name) == name \in DOMAIN sm

\* statusMap.get(name): the run record object the index refers to
Get(wf, sm, name) == wf.status[sm[name].coll][sm[name].idx]

----------------------------------------------------------------------------
(* checkParams.  An operator that can raise returns a record with the      *)
(* field raised; the document wf is threaded through because the           *)
(* write-back of line 272 mutates the run record the index refers to.      *)
(***************************************************************************)

\* The last element of list whose name is n decides (each match overwrites).
LastValue(list, n, default) ==
  LET hits == {i \in DOMAIN list : list[i].name = n}
  IN  IF hits = {} THEN default
      ELSE list[CHOOSE i \in hits : \A j \in hits : j <= i].value

\* TaskIdentity without the tests for an empty or undefined pod name.
TaskIdentityAnyPodName(wf, sm, name) ==
  IF Has(sm, name) THEN Get(wf, sm, name).status.podName ELSE name

\* The identity of a task's node (lines 113-118 and 228-235).
TaskIdentity(wf, sm, name) ==
  IF /\ Has(sm, name)
     /\ Get(wf, sm, name).status.podName # <<>>
     /\ Get(wf, sm, name).status.podName # Undefined
  THEN Get(wf, sm, name).status.podName
  ELSE name

\* The gate of lines 252-256 on the parent's run record: "edge", "none",
\* or "raise" (conditions is an empty list, so conditions[0] is undefined).
ParamGate(wf, sm, parentTask) ==
  IF ~Has(sm, parentTask) THEN "none"
  ELSE LET st == Get(wf, sm, parentTask).status
       IN  IF ~st.hasConditions THEN "none"
           ELSE IF st.conditions = <<>> THEN "raise"
           ELSE IF st.conditions[1].type = "Succeeded" THEN "edge"
           ELSE "none"

\* WriteBack that assigns statusParam['name'] instead of statusParam['value'].
WriteBackToName(wf, ref, name, paramValue) ==
  [wf EXCEPT !.status[ref.coll][ref.idx].status.params =
     [i \in DOMAIN @ |-> IF @[i].name = name
                         THEN [@[i] EXCEPT !.name = paramValue]
                         ELSE @[i]]]

\* statusParam['value'] = paramValue for every recorded parameter of the name
WriteBack(wf, ref, name, paramValue) ==
  [wf EXCEPT !.status[ref.coll][ref.idx].status.params =
     [i \in DOMAIN @ |-> IF @[i].name = name
                         THEN [@[i] EXCEPT !.value = paramValue]
                         ELSE @[i]]]

\* EdgeChild that always takes the component's own id.
EdgeChildOfComponent(componentId, ownerTask) == componentId

\* The child of a parameter edge (line 258): the component, or the task that
\* owns the condition object.
EdgeChild(componentId, ownerTask) ==
  IF ownerTask = <<>> THEN componentId ELSE ownerTask

\* One iteration of the loop of lines 238-274.
CheckParam(acc, sm, pipelineParams, component, ownerTask, param) ==
  IF param.value = Undefined
  THEN [acc EXCEPT !.raised = TRUE]
  ELSE
  LET wf == acc.wf
      componentId ==
        IF ownerTask # <<>> THEN component.conditionRef
        ELSE TaskIdentity(wf, sm, component.name)
      initial == IF Truthy(param.value) THEN param.value ELSE <<>>
      splitParam == decodeParam(param.value)
      gate == IF Truthy(splitParam.task)
              THEN ParamGate(wf, sm, splitParam.task) ELSE "none"
      paramValue ==
        IF ~Truthy(splitParam.task)
        THEN LastValue(pipelineParams, splitParam.param, initial)
        ELSE IF gate = "edge"
        THEN LastValue(Get(wf, sm, splitParam.task).status.taskResults,
                       splitParam.param, initial)
        ELSE initial
      newEdges ==
        IF gate = "edge"
        THEN {<<Get(wf, sm, splitParam.task).status.podName,
                EdgeChild(componentId, ownerTask)>>}
        ELSE {}
      recorded == Has(sm, component.name)
                  /\ Get(wf, sm, component.name).status.hasTaskSpec
  IN  IF gate = "raise" THEN [acc EXCEPT !.raised = TRUE]
      ELSE IF recorded /\ ~Get(wf, sm, component.name).status.hasParams
      THEN [acc EXCEPT !.raised = TRUE]
      ELSE [wf     |-> IF recorded
                       THEN WriteBack(wf, sm[component.name], param.name, paramValue)
                       ELSE wf,
            edges  |-> acc.edges \cup newEdges,
            raised |-> FALSE]

RECURSIVE CheckParamsFrom(_, _, _, _, _, _)
CheckParamsFrom(acc0, sm, pipelineParams, component, ownerTask, i) ==
  With(acc0, LAMBDA acc :
    IF acc.raised \/ i > Len(component.params) THEN acc
    ELSE CheckParamsFrom(
           CheckParam(acc, sm, pipelineParams, component, ownerTask, component.params[i]),
           sm, pipelineParams, component, ownerTask, i + 1))

\* checkParams(statusMap, pipelineParams, component, ownerTask): the edges it
\* returns are added to acc.edges.
checkParams(acc, sm, pipelineParams, component, ownerTask) ==
  CheckParamsFrom(acc, sm, pipelineParams, component, ownerTask, 1)

\* getStatus(execStatus) for an indexed run record: "raise" for conditions[0]
\* of an empty list.
getStatus(rec) ==
  IF rec.hasStatus /\ rec.status.hasConditions
  THEN IF rec.status.conditions = <<>> THEN "raise"
       ELSE rec.status.conditions[1].reason
  ELSE NodePhase_PENDING

----------------------------------------------------------------------------
(* createRuntimeGraph *)

\* Lines 77-81 and 84-91 for one collection: every record gets its key as
\* taskRunId.
StampRunIds(recs) == [i \in DOMAIN recs |-> [recs[i] EXCEPT !.taskRunId = recs[i].id]]

\* IndexRecords without the test for the record's status.
RECURSIVE IndexRecordsWithoutStatusTest(_, _, _, _)
IndexRecordsWithoutStatusTest(sm0, coll, recs, i) ==
  With(sm0, LAMBDA sm :
    IF i > Len(recs) THEN sm
    ELSE IndexRecordsWithoutStatusTest(
           SetKey(sm, recs[i].pipelineTaskName, [coll |-> coll, idx |-> i]),
           coll, recs, i + 1))

\* ... and a record with a status is indexed under its task name.
RECURSIVE IndexRecords(_, _, _, _)
IndexRecords(sm0, coll, recs, i) ==
  With(sm0, LAMBDA sm :
    IF i > Len(recs) THEN sm
    ELSE IndexRecords(
           IF recs[i].hasStatus
           THEN SetKey(sm, recs[i].pipelineTaskName, [coll |-> coll, idx |-> i])
           ELSE sm,
           coll, recs, i + 1))

\* The index of lines 75-91: standard task runs first, custom runs second.
BuildStatusMap(wf) ==
  IndexRecords(IndexRecords(<<>>, "taskRuns", wf.status.taskRuns, 1),
               "runs", wf.status.runs, 1)

\* Lines 97-105 for one task without a run record: "push", "skip" or "raise".
RECURSIVE WhenScan(_, _, _)
WhenScan(sm, when, i) ==
  IF i > Len(when) THEN "skip"
  ELSE IF when[i].input = Undefined THEN "raise"
  ELSE LET param == decodeParam(when[i].input)
       IN  IF Truthy(param.task) /\ Has(sm, param.task) THEN "push"
           ELSE WhenScan(sm, when, i + 1)

\* Lines 94-107: acc is [names, raised].
RECURSIVE ConditionTasksFrom(_, _, _, _)
ConditionTasksFrom(acc0, sm, tasks, i) ==
  With(acc0, LAMBDA acc :
    IF acc.raised \/ i > Len(tasks) THEN acc
    ELSE LET scan == IF Has(sm, tasks[i].name) THEN "skip"
                     ELSE WhenScan(sm, tasks[i].when, 1)
         IN  ConditionTasksFrom(
               [names  |-> IF scan = "push" THEN acc.names \cup {tasks[i].name}
                           ELSE acc.names,
                raised |-> scan = "raise"],
               sm, tasks, i + 1))

\* ParentId without the fallback to the task name.
ParentIdPodNameOnly(wf, sm, parentTask) == Get(wf, sm, parentTask).status.podName

\* parentId of lines 130-132, 158-160 and 168-170
ParentId(wf, sm, parentTask) ==
  IF Truthy(Get(wf, sm, parentTask).status.podName)
  THEN Get(wf, sm, parentTask).status.podName
  ELSE Get(wf, sm, parentTask).pipelineTaskName

\* Lines 122-123: the task's condition objects, owned by taskId.
RECURSIVE ConditionEdgesFrom(_, _, _, _, _, _)
ConditionEdgesFrom(acc0, sm, pipelineParams, conditions, taskId, i) ==
  With(acc0, LAMBDA acc :
    IF acc.raised \/ i > Len(conditions) THEN acc
    ELSE ConditionEdgesFrom(
           checkParams(acc, sm, pipelineParams,
                       [name |-> Undefined, params |-> conditions[i].params,
                        conditionRef |-> conditions[i].conditionRef],
                       taskId),
           sm, pipelineParams, conditions, taskId, i + 1))

\* Lines 126-136: the when-guards.
RECURSIVE WhenEdgesFrom(_, _, _, _, _)
WhenEdgesFrom(acc0, sm, when, taskId, i) ==
  With(acc0, LAMBDA acc :
    IF acc.raised \/ i > Len(when) THEN acc
    ELSE IF when[i].input = Undefined THEN [acc EXCEPT !.raised = TRUE]
    ELSE LET param == decodeParam(when[i].input)
         IN  WhenEdgesFrom(
               IF Truthy(param.task) /\ Has(sm, param.task)
               THEN [acc EXCEPT !.edges = @ \cup {<<ParentId(acc.wf, sm, param.task), taskId>>}]
               ELSE acc,
               sm, when, taskId, i + 1))

\* Lines 156-163: the parents named by a comma-separated task list.
TaskListEdges(wf, sm, arg, taskId) ==
  LET names == Split(arg, ",")
  IN  {<<ParentId(wf, sm, names[k]), taskId>> :
         k \in {j \in DOMAIN names : Has(sm, names[j])}}

\* Lines 166-172: the parent named by a condition expression.
ConditionArgEdges(wf, sm, arg, taskId) ==
  LET parentTask == Substring(arg, IndexOf(arg, ResultsMarker) + 8,
                              IndexOf(arg, OutputMarker))
  IN  IF Has(sm, parentTask) THEN {<<ParentId(wf, sm, parentTask), taskId>>} ELSE {}

\* Lines 148-175: st is [isNextTaskList, isNextCondition, edges].
RECURSIVE AnyTaskArgsFrom(_, _, _, _, _, _)
AnyTaskArgsFrom(st0, wf, sm, args, taskId, i) ==
  With(st0, LAMBDA st :
    IF i > Len(args) THEN st.edges
    ELSE LET arg == args[i]
             next ==
               IF arg = TaskListFlag THEN [st EXCEPT !.isNextTaskList = TRUE]
               ELSE IF arg = ConditionFlag THEN [st EXCEPT !.isNextCondition = TRUE]
               ELSE IF st.isNextTaskList
               THEN [st EXCEPT !.edges = @ \cup TaskListEdges(wf, sm, arg, taskId),
                               !.isNextTaskList = FALSE]
               ELSE IF st.isNextCondition
               THEN [st EXCEPT !.edges = @ \cup ConditionArgEdges(wf, sm, arg, taskId),
                               !.isNextCondition = FALSE]
               ELSE st
         IN  AnyTaskArgsFrom(next, wf, sm, args, taskId, i + 1))

\* Lines 139-176: the edges of an any-task aggregator step.
AnyTaskEdges(wf, sm, task, taskId) ==
  IF task.hasArgs /\ task.command0 = AnyTask
  THEN AnyTaskArgsFrom([isNextTaskList |-> FALSE, isNextCondition |-> FALSE, edges |-> {}],
                       wf, sm, task.args, taskId, 1)
  ELSE {}

\* The gate of lines 180-183 on a runAfter parent: conditions[0] of a parent
\* whose status has no conditions, or an empty list, raises.
RunAfterGate(wf, sm, parentTask) ==
  IF ~Has(sm, parentTask) THEN "none"
  ELSE LET st == Get(wf, sm, parentTask).status
       IN  IF ~st.hasConditions \/ st.conditions = <<>> THEN "raise"
           ELSE IF st.conditions[1].type = "Succeeded" THEN "edge"
           ELSE "none"

\* Lines 178-188
RECURSIVE RunAfterEdgesFrom(_, _, _, _, _)
RunAfterEdgesFrom(acc0, sm, runAfter, taskId, i) ==
  With(acc0, LAMBDA acc :
    IF acc.raised \/ i > Len(runAfter) THEN acc
    ELSE LET gate == RunAfterGate(acc.wf, sm, runAfter[i])
         IN  RunAfterEdgesFrom(
               IF gate = "raise" THEN [acc EXCEPT !.raised = TRUE]
               ELSE IF gate = "edge"
               THEN [acc EXCEPT !.edges =
                       @ \cup {<<Get(acc.wf, sm, runAfter[i]).status.podName, taskId>>}]
               ELSE acc,
               sm, runAfter, taskId, i + 1))

\* Lines 191-196: the status of a task that gets a node.
NodeStatus(wf, sm, condTasks, skippedTasks, name) ==
  IF name \notin condTasks THEN getStatus(Get(wf, sm, name))
  ELSE IF \E k \in DOMAIN skippedTasks : skippedTasks[k] = name
  THEN NodePhase_CONDITIONCHECKFAILED
  ELSE NodePhase_PENDING

\* Lines 111-215, the body of the loop over the declared tasks: st is
\* [wf, graph, raised].
ProcessTask(st, sm, condTasks, task) ==
  IF ~(Has(sm, task.name) \/ task.name \in condTasks) THEN st
  ELSE
  LET pipelineParams == st.wf.spec.params
      taskId == TaskIdentity(st.wf, sm, task.name)
      e0 == [wf |-> st.wf, edges |-> {}, raised |-> FALSE]
      e1 == checkParams(e0, sm, pipelineParams,
                        [name |-> task.name, params |-> task.params,
                         conditionRef |-> Undefined],
                        <<>>)
      e2 == ConditionEdgesFrom(e1, sm, pipelineParams, task.conditions, taskId, 1)
      exitHandlers == {st.wf.spec.finally[k].name : k \in DOMAIN st.wf.spec.finally}
  IN  With(WhenEdgesFrom(e2, sm, task.when, taskId, 1), LAMBDA e3 :
      With(RunAfterEdgesFrom(e3, sm, task.runAfter, taskId, 1), LAMBDA e4 :
        LET any == AnyTaskEdges(e3.wf, sm, task, taskId)
            status == NodeStatus(e4.wf, sm, condTasks, st.wf.status.skippedTasks,
                                 task.name)
        IN  IF e4.raised \/ status = "raise"
            THEN [wf |-> e4.wf, graph |-> st.graph, raised |-> TRUE]
            ELSE [wf     |-> e4.wf,
                  graph  |-> setNode(setEdges(st.graph, any \cup e4.edges), taskId,
                               [committed |-> TRUE, label |-> task.name,
                                statusColoring |-> IF task.name \in exitHandlers
                                                   THEN ExitHandlerColoring
                                                   ELSE statusToBgColor(status),
                                icon |-> status]),
                  raised |-> FALSE]))

RECURSIVE ProcessTasksFrom(_, _, _, _, _)
ProcessTasksFrom(st0, sm, condTasks, tasks, i) ==
  With(st0, LAMBDA st :
    IF st.raised \/ i > Len(tasks) THEN st
    ELSE ProcessTasksFrom(ProcessTask(st, sm, condTasks, tasks[i]),
                          sm, condTasks, tasks, i + 1))

\* NoStatusYet without the test for a missing taskRuns entry.
NoStatusYetEmptyOnly(wf) == wf.status.keys = {}

\* The early return of lines 55-60.
NoStatusYet(wf) == wf.status.keys = {} \/ "taskRuns" \notin wf.status.keys

\* createRuntimeGraph(workflow) with the declared tasks taken in the order
\* tasks: [wf, graph, statusMap, conditionTasks, raised].
RuntimeGraphOver(wf0, tasks) ==
  IF NoStatusYet(wf0)
  THEN [wf |-> wf0, graph |-> EmptyGraph, statusMap |-> <<>>,
        conditionTasks |-> {}, raised |-> FALSE]
  ELSE
  With([wf0 EXCEPT !.status.taskRuns = StampRunIds(@),
                   !.status.runs = StampRunIds(@)], LAMBDA wf :
  With(BuildStatusMap(wf), LAMBDA sm :
  With(ConditionTasksFrom([names |-> {}, raised |-> FALSE], sm, tasks, 1), LAMBDA ct :
  With(IF ct.raised THEN [wf |-> wf, graph |-> EmptyGraph, raised |-> TRUE]
       ELSE ProcessTasksFrom([wf |-> wf, graph |-> EmptyGraph, raised |-> FALSE],
                             sm, ct.names, tasks, 1), LAMBDA st :
    [wf |-> st.wf, graph |-> st.graph, statusMap |-> sm,
     conditionTasks |-> ct.names, raised |-> st.raised]))))

\* Lines 62-64: tasks followed by finally tasks.
DeclaredTasks(wf) == wf.spec.tasks \o wf.spec.finally

RuntimeGraph(wf) == RuntimeGraphOver(wf, DeclaredTasks(wf))

----------------------------------------------------------------------------
(* getNodeInputOutputArtifacts *)

ArtifactsPrefix == <<"a", "r", "t", "i", "f", "a", "c", "t", "s", "/">>

Slash == <<"/">>

TgzSuffix == <<".", "t", "g", "z">>

PipelineRunToken == <<"$", "P", "I", "P", "E", "L", "I", "N", "E", "R", "U", "N">>

LabelTrue == <<"t", "r", "u", "e">>

LabelFalse == <<"f", "a", "l", "s", "e">>

\* s.replace(pat, rep) for a string pattern: the first occurrence only.
Replace(s, pat, rep) ==
  LET i == IndexOf(s, pat)
  IN  IF i = -1 THEN s
      ELSE SubSeq(s, 1, i) \o rep \o SubSeq(s, i + Len(pat) + 1, Len(s))

\* The secret references of the location template.
MinioSecret(key) == [name |-> "mlpipeline-minio-artifact", key |-> key, optional |-> FALSE]

\* One returned pair [name, S3Artifact] with the given key.
S3Artifact(annotations, name, key) ==
  [name |-> name,
   endpoint |-> annotations.endpoint,
   bucket |-> annotations.bucket,
   insecure |-> (annotations.scheme = "http://"),
   accessKeySecret |-> MinioSecret("accesskey"),
   secretKeySecret |-> MinioSecret("secretkey"),
   key |-> key]

\* The two loops that find the task of nodeId: sel is [taskName, taskStatus,
\* raised]; a standard task run is matched by its pod name, a custom run by
\* its task name, and the last match stands.
RECURSIVE SelectFrom(_, _, _, _, _)
SelectFrom(sel0, recs, i, byPod, node) ==
  With(sel0, LAMBDA sel :
    IF i > Len(recs) \/ sel.raised THEN sel
    ELSE LET rec == recs[i]
             matches == /\ rec.hasStatus
                        /\ (IF byPod THEN rec.status.podName ELSE rec.pipelineTaskName) = node
         IN  SelectFrom(IF ~matches THEN sel
                        ELSE IF getStatus(rec) = "raise" THEN [sel EXCEPT !.raised = TRUE]
                        ELSE [sel EXCEPT !.taskName = rec.pipelineTaskName,
                                         !.taskStatus = getStatus(rec)],
                        recs, i + 1, byPod, node))

SelectedTask(wf, node) ==
  SelectFrom(SelectFrom([taskName |-> <<>>, taskStatus |-> NodePhase_SUCCEEDED,
                         raised |-> FALSE],
                        wf.status.taskRuns, 1, TRUE, node),
             wf.status.runs, 1, FALSE, node)

\* rawInputArtifacts[taskName] || []
ArtifactsOf(entries, taskName) ==
  LET hits == SelectSeq(entries, LAMBDA e : e.task = taskName)
  IN  IF hits = <<>> THEN <<>> ELSE hits[Len(hits)].artifacts

\* pipelineRunID with the cache test applied to the selected task's label
\* instead of the producing task's.
PipelineRunIDByConsumer(wf, producer, consumer, cached) ==
  IF /\ \E i \in DOMAIN wf.spec.tasks :
          /\ consumer = wf.spec.tasks[i].name
          /\ (IF Truthy(wf.spec.tasks[i].cacheEnabled)
              THEN wf.spec.tasks[i].cacheEnabled ELSE LabelFalse) = LabelTrue
     /\ Truthy(cached)
  THEN cached
  ELSE IF Truthy(wf.metadata.name) THEN wf.metadata.name ELSE <<>>

\* pipelineRunID after the forEach over spec.pipelineSpec.tasks: the cached
\* run when a task named producer carries the cache label 'true' and a cached
\* run is given, else the name of the run.
PipelineRunID(wf, producer, consumer, cached) ==
  IF /\ \E i \in DOMAIN wf.spec.tasks :
          /\ producer = wf.spec.tasks[i].name
          /\ (IF Truthy(wf.spec.tasks[i].cacheEnabled)
              THEN wf.spec.tasks[i].cacheEnabled ELSE LabelFalse) = LabelTrue
     /\ Truthy(cached)
  THEN cached
  ELSE IF Truthy(wf.metadata.name) THEN wf.metadata.name ELSE <<>>

InputArtifact(wf, taskName, cached, artifact) ==
  S3Artifact(wf.metadata.annotations, artifact.name,
             ArtifactsPrefix \o PipelineRunID(wf, artifact.parent_task, taskName, cached)
               \o Slash \o artifact.parent_task \o Slash
               \o SubstringFrom(artifact.name, Len(artifact.parent_task) + 1)
               \o TgzSuffix)

\* The producing task of an output artifact is the third segment of its key.
OutputArtifact(wf, taskName, cached, artifact) ==
  LET split == Split(artifact.key, "/")
      producer == IF Len(split) >= 3 THEN split[3] ELSE Undefined
  IN  S3Artifact(wf.metadata.annotations, artifact.name,
                 Replace(artifact.key, PipelineRunToken,
                         PipelineRunID(wf, producer, taskName, cached)))

\* getNodeInputOutputArtifacts(workflow, nodeId, cachedPipelineRun):
\* [inputArtifacts, outputArtifacts, raised].
NodeInputOutputArtifacts(wf, node, cached) ==
  LET none == [inputArtifacts |-> <<>>, outputArtifacts |-> <<>>, raised |-> FALSE]
      sel == SelectedTask(wf, node)
      rawIn == ArtifactsOf(wf.metadata.annotations.inputArtifacts, sel.taskName)
      rawOut == ArtifactsOf(wf.metadata.annotations.outputArtifacts, sel.taskName)
      inputs == [i \in DOMAIN rawIn |-> InputArtifact(wf, sel.taskName, cached, rawIn[i])]
  IN  IF \/ ("taskRuns" \notin wf.status.keys /\ "runs" \notin wf.status.keys)
         \/ ~wf.metadata.hasAnnotations
      THEN none
      ELSE IF sel.raised THEN [none EXCEPT !.raised = TRUE]
      ELSE IF ~Truthy(sel.taskName) THEN none
      ELSE IF \/ rawOut = <<>>
              \/ ~Truthy(rawOut[1].key)
              \/ sel.taskStatus \notin {NodePhase_COMPLETED, NodePhase_SUCCEEDED}
      THEN [none EXCEPT !.inputArtifacts = inputs]
      ELSE IF \E i \in DOMAIN rawOut : rawOut[i].key = Undefined
      THEN [none EXCEPT !.raised = TRUE]
      ELSE [inputArtifacts |-> inputs,
            outputArtifacts |->
              [i \in DOMAIN rawOut |-> OutputArtifact(wf, sel.taskName, cached, rawOut[i])],
            raised |-> FALSE]

----------------------------------------------------------------------------
(* The documents the model is run on: a consumer task T whose declaration  *)
(* refers to a parent task P in one of the ways createRuntimeGraph reads,  *)
(* every run-record shape of both, and plain bystander tasks.              *)
(***************************************************************************)

MaxTasks == 2

NameA == <<"A">>

NameB == <<"B">>

NameC == <<"C">>

NameD == <<"D">>

AllNames == <<NameA, NameB, NameC, NameD>>

TaskNames == {AllNames[i] : i \in 1..Min(MaxTasks, Len(AllNames))}

ResultName == <<"o", "u", "t">>

ResultValue == <<"4", "2">>

PipelineParamName == <<"p", "p">>

PipelineParams == <<[name |-> PipelineParamName, value |-> <<"7">>]>>

\* $(tasks.<P>.results.out)
ResultRef(P) == TasksPrefix \o P \o ResultsInfix \o ResultName \o CloseParen

\* $(params.pp)
PipelineParamRef == ParamsPrefix \o PipelineParamName \o CloseParen

PodOf(N) == <<"p", "o", "d", "-">> \o N

PlainTask(N) ==
  [name |-> N, params |-> <<>>, when |-> <<>>, conditions |-> <<>>, runAfter |-> <<>>,
   command0 |-> Undefined, hasArgs |-> FALSE, args |-> <<>>, cacheEnabled |-> Undefined]

Param(n, v) == [name |-> <<n>>, value |-> v]

Features ==
  {"plain", "paramLiteral", "paramPipeline", "paramResult", "paramNoValue",
   "paramTwo", "conditionParam", "when", "whenNoInput", "whenLiteral", "taskList",
   "conditionArg", "malformedArgs", "runAfter", "whenAndTaskList", "paramAndRunAfter"}

\* The declaration of task T with feature f referring to parent P.
Declaration(T, P, f) ==
  LET t == PlainTask(T)
      anyTask(args) == [t EXCEPT !.command0 = AnyTask, !.hasArgs = TRUE, !.args = args]
  IN  CASE f = "plain" -> t
        [] f = "paramLiteral" -> [t EXCEPT !.params = <<Param("p", <<"x">>)>>]
        [] f = "paramPipeline" -> [t EXCEPT !.params = <<Param("p", PipelineParamRef)>>]
        [] f = "paramResult" -> [t EXCEPT !.params = <<Param("p", ResultRef(P))>>]
        [] f = "paramNoValue" -> [t EXCEPT !.params = <<Param("p", Undefined)>>]
        [] f = "paramTwo" ->
             [t EXCEPT !.params = <<Param("p", ResultRef(P)), Param("q", <<"x">>)>>]
        [] f = "conditionParam" ->
             [t EXCEPT !.conditions = <<[conditionRef |-> <<"c", "o", "n", "d">>,
                                         params |-> <<Param("p", ResultRef(P))>>]>>]
        [] f = "when" -> [t EXCEPT !.when = <<[input |-> ResultRef(P)]>>]
        [] f = "whenNoInput" -> [t EXCEPT !.when = <<[input |-> Undefined]>>]
        [] f = "whenLiteral" -> [t EXCEPT !.when = <<[input |-> PipelineParamRef]>>]
        [] f = "taskList" -> anyTask(<<TaskListFlag, P \o <<",">> \o T>>)
        [] f = "conditionArg" ->
             anyTask(<<ConditionFlag, ResultsMarker \o P \o OutputMarker \o <<" ", "=", "=">>>>)
        [] f = "malformedArgs" -> anyTask(<<ConditionFlag, TaskListFlag, <<"x">>, P>>)
        [] f = "runAfter" -> [t EXCEPT !.runAfter = <<P>>]
        [] f = "whenAndTaskList" ->
             [anyTask(<<TaskListFlag, P>>) EXCEPT !.when = <<[input |-> ResultRef(P)]>>]
        [] f = "paramAndRunAfter" ->
             [t EXCEPT !.params = <<Param("p", ResultRef(P))>>, !.runAfter = <<P>>]

Condition(type, reason) == [type |-> type, reason |-> reason]

NoStatus ==
  [hasConditions |-> FALSE, conditions |-> <<>>, podName |-> Undefined,
   taskResults |-> <<>>, hasTaskSpec |-> FALSE, hasParams |-> FALSE, params |-> <<>>]

Record(id, N, hasStatus, status) ==
  [id |-> id, pipelineTaskName |-> N, taskRunId |-> Undefined,
   hasStatus |-> hasStatus, status |-> status]

\* The status of a standard task run of N: a pod, the results it wrote and
\* the recorded parameter list of its task specification.
PodStatus(N, conditions) ==
  [hasConditions |-> TRUE, conditions |-> conditions, podName |-> PodOf(N),
   taskResults |-> <<[name |-> ResultName, value |-> ResultValue]>>,
   hasTaskSpec |-> TRUE, hasParams |-> TRUE,
   params |-> <<Param("p", Undefined), Param("q", Undefined)>>]

Succeeded == <<Condition("Succeeded", "Succeeded")>>

RecordKinds ==
  {"none", "noStatus", "succeeded", "failed", "running", "customRun", "emptyPodName",
   "noConditions", "emptyConditions", "noRecordedParams", "otherType", "both",
   "retried", "statusThenNone"}

\* The run records of task N of one kind: [taskRuns, runs].
Records(N, kind) ==
  LET std(status) == [taskRuns |-> <<Record(<<"r">> \o N, N, TRUE, status)>>, runs |-> <<>>]
      custom == Record(<<"c">> \o N, N, TRUE,
                       [NoStatus EXCEPT !.hasConditions = TRUE, !.conditions = Succeeded])
  IN  CASE kind = "none" -> [taskRuns |-> <<>>, runs |-> <<>>]
        [] kind = "noStatus" ->
             [taskRuns |-> <<Record(<<"r">> \o N, N, FALSE, NoStatus)>>, runs |-> <<>>]
        [] kind = "succeeded" -> std(PodStatus(N, Succeeded))
        [] kind = "failed" -> std(PodStatus(N, <<Condition("Succeeded", "Failed")>>))
        [] kind = "running" ->
             std([PodStatus(N, <<Condition("Succeeded", "Running")>>)
                    EXCEPT !.taskResults = <<>>])
        [] kind = "customRun" -> [taskRuns |-> <<>>, runs |-> <<custom>>]
        [] kind = "emptyPodName" -> std([PodStatus(N, Succeeded) EXCEPT !.podName = <<>>])
        [] kind = "noConditions" ->
             std([PodStatus(N, <<>>) EXCEPT !.hasConditions = FALSE, !.taskResults = <<>>])
        [] kind = "emptyConditions" -> std([PodStatus(N, <<>>) EXCEPT !.taskResults = <<>>])
        [] kind = "noRecordedParams" ->
             std([PodStatus(N, Succeeded) EXCEPT !.hasParams = FALSE, !.params = <<>>])
        [] kind = "otherType" -> std(PodStatus(N, <<Condition("Ready", "Pending")>>))
        [] kind = "both" ->
             [taskRuns |-> <<Record(<<"r">> \o N, N, TRUE,
                                    PodStatus(N, <<Condition("Succeeded", "Failed")>>))>>,
              runs |-> <<custom>>]
        [] kind = "retried" ->
             [taskRuns |-> <<Record(<<"r">> \o N, N, TRUE,
                                    [PodStatus(N, <<Condition("Succeeded", "Failed")>>)
                                       EXCEPT !.podName = PodOf(N) \o <<"-", "0">>,
                                              !.taskResults = <<>>]),
                             Record(<<"s">> \o N, N, TRUE, PodStatus(N, Succeeded))>>,
              runs |-> <<>>]
        [] kind = "statusThenNone" ->
             [taskRuns |-> <<Record(<<"r">> \o N, N, TRUE, PodStatus(N, Succeeded)),
                             Record(<<"s">> \o N, N, FALSE, NoStatus)>>,
              runs |-> <<>>]

ConsumerKinds ==
  {"none", "noStatus", "succeeded", "running", "customRun", "emptyPodName",
   "emptyConditions", "noRecordedParams"}

BystanderKinds == {"none", "succeeded", "customRun"}

\* "plain", the consumer is an exit handler, the consumer is listed as skipped,
\* the status object is {}, or it has no taskRuns key.
Variations == {"plain", "finally", "skipped", "emptyStatus", "noTaskRuns"}

RECURSIVE Concat(_, _)
Concat(f, names0) ==
  With(names0, LAMBDA names :
    IF names = <<>> THEN <<>> ELSE f[names[1]] \o Concat(f, Tail(names)))

RunName == <<"r", "u", "n">>

\* metadata.annotations: the parsed 'tekton.dev/input_artifacts' and
\* 'tekton.dev/output_artifacts' maps as lists of [task, artifacts] entries.
NoAnnotations ==
  [inputArtifacts |-> <<>>, outputArtifacts |-> <<>>,
   endpoint |-> "minio-service.kubeflow:9000", bucket |-> "mlpipeline",
   scheme |-> "http://"]

\* The names of a set, in the order of AllNames.
InOrder(S) == SelectSeq(AllNames, LAMBDA n : n \in S)

Document(T, P, f, kinds, variation) ==
  LET declared == [n \in TaskNames |->
                     <<IF n = T THEN Declaration(T, P, f) ELSE PlainTask(n)>>]
      recs == [n \in TaskNames |-> Records(n, kinds[n])]
      taskRuns == Concat([n \in TaskNames |-> recs[n].taskRuns], InOrder(TaskNames))
      runs == Concat([n \in TaskNames |-> recs[n].runs], InOrder(TaskNames))
      skipped == IF variation = "skipped" THEN <<T>> ELSE <<>>
      keys == (IF variation \in {"emptyStatus", "noTaskRuns"} THEN {} ELSE {"taskRuns"})
              \cup (IF variation # "emptyStatus" /\ runs # <<>> THEN {"runs"} ELSE {})
              \cup (IF skipped # <<>> THEN {"skippedTasks"} ELSE {})
              \cup (IF variation = "noTaskRuns" THEN {"startTime"} ELSE {})
  IN  [metadata |-> [name |-> RunName, hasAnnotations |-> FALSE, annotations |-> NoAnnotations],
       spec |-> [params |-> PipelineParams,
                 tasks |-> Concat(declared,
                                  InOrder(IF variation = "finally"
                                          THEN TaskNames \ {T} ELSE TaskNames)),
                 finally |-> IF variation = "finally" THEN declared[T] ELSE <<>>],
       status |-> [keys |-> keys,
                   taskRuns |-> IF "taskRuns" \in keys THEN taskRuns ELSE <<>>,
                   runs |-> IF "runs" \in keys THEN runs ELSE <<>>,
                   skippedTasks |-> skipped]]

KindAssignments(T, P) ==
  {k \in [TaskNames -> RecordKinds] :
     /\ k[T] \in ConsumerKinds
     /\ \A n \in TaskNames \ {T, P} : k[n] \in BystanderKinds}

Documents ==
  {Document(T, P, f, k, v) :
     <<T, P, f, k, v>> \in
       {x \in TaskNames \X TaskNames \X Features
                \X [TaskNames -> RecordKinds] \X Variations :
          /\ x[1] # x[2]
          /\ x[4] \in KindAssignments(x[1], x[2])
          /\ x[5] \in {"emptyStatus", "noTaskRuns"} =>
               x[4][x[1]] \in {"none", "customRun"} /\ x[4][x[2]] \in {"succeeded", "customRun"}}}

NoArtifacts == [inputArtifacts |-> <<>>, outputArtifacts |-> <<>>]

Init ==
  /\ workflow \in Documents
  /\ graph = EmptyGraph
  /\ statusMap = <<>>
  /\ conditionTasks = {}
  /\ pc = "start"
  /\ paramString = <<>>
  /\ decoded = EmptyReference
  /\ nodeId = Undefined
  /\ cachedPipelineRun = Undefined
  /\ artifacts = NoArtifacts

\* The strings decodeParam is run on: up to MaxTokens pieces of the
\* reference grammar, in any order.
MaxTokens == 5

DecodeTokens ==
  {DollarParen, <<"p", "a", "r", "a", "m", "s", ".">>,
   <<"t", "a", "s", "k", "s", ".", "A", ".", "r", "e", "s", "u", "l", "t", "s", ".">>,
   ResultName, CloseParen, <<".">>, <<"x">>}

RECURSIVE TokenStrings(_)
TokenStrings(n) ==
  IF n = 0 THEN {<<>>}
  ELSE With(TokenStrings(n - 1), LAMBDA shorter :
         shorter \cup {u \o t : u \in shorter, t \in DecodeTokens})

InitDecode ==
  /\ paramString \in TokenStrings(MaxTokens)
  /\ pc = "start"
  /\ decoded = EmptyReference
  /\ workflow = Document(NameB, NameA, "plain", [n \in TaskNames |-> "none"], "plain")
  /\ graph = EmptyGraph
  /\ statusMap = <<>>
  /\ conditionTasks = {}
  /\ nodeId = Undefined
  /\ cachedPipelineRun = Undefined
  /\ artifacts = NoArtifacts

DecodeParam ==
  /\ pc = "start"
  /\ decoded' = decodeParam(paramString)
  /\ pc' = "returned"
  /\ UNCHANGED <<workflow, graph, statusMap, conditionTasks, paramString, nodeId,
                 cachedPipelineRun, artifacts>>

NextDecode == DecodeParam

SpecDecode == InitDecode /\ [][NextDecode]_vars

CreateRuntimeGraph ==
  /\ pc = "start"
  /\ \E r \in {RuntimeGraph(workflow)} :
         /\ workflow' = r.wf
         /\ graph' = IF r.raised THEN EmptyGraph ELSE r.graph
         /\ statusMap' = r.statusMap
         /\ conditionTasks' = r.conditionTasks
         /\ pc' = IF r.raised THEN "raised" ELSE "returned"
  /\ UNCHANGED <<paramString, decoded, nodeId, cachedPipelineRun, artifacts>>

Next == CreateRuntimeGraph

Spec == Init /\ [][Next]_vars

\* The documents getNodeInputOutputArtifacts is run on: a task T whose run
\* record has kind kindT, with up to MaxArtifacts input artifacts, each
\* produced by the declared task P or by a task the pipeline does not declare.
MaxArtifacts == 2

UndeclaredName == <<"Z">>

CachedRun == <<"c", "a", "c", "h", "e", "d">>

OutSuffix == <<"-">> \o ResultName

\* The descriptor of the artifact 'out' of producer: its name is
\* '<producer>-out'.
InputDescriptor(producer) == [name |-> producer \o OutSuffix, parent_task |-> producer]

OutputDescriptor(producer, key) == [name |-> producer \o OutSuffix, key |-> key]

OutputKey(producer) ==
  ArtifactsPrefix \o PipelineRunToken \o Slash \o producer \o Slash \o ResultName \o TgzSuffix

RECURSIVE DescriptorLists(_, _)
DescriptorLists(producers, n) ==
  IF n = 0 THEN {<<>>}
  ELSE With(DescriptorLists(producers, n - 1), LAMBDA shorter :
         shorter \cup {Append(l, InputDescriptor(p)) : l \in shorter, p \in producers})

ArtifactVariations ==
  {"inputsOnly", "noAnnotations", "emptyStatus", "outputNoKey", "outputKeyed"}

ArtifactDocument(T, P, labelP, labelOthers, kindT, variation, descriptors) ==
  LET base == Document(T, P, "plain",
                       [n \in TaskNames |-> IF n = T THEN kindT ELSE "succeeded"],
                       IF variation = "emptyStatus" THEN "emptyStatus" ELSE "plain")
      outputs == CASE variation = "outputKeyed" ->
                        <<[task |-> T, artifacts |-> <<OutputDescriptor(T, OutputKey(T))>>]>>
                   [] variation = "outputNoKey" ->
                        <<[task |-> T, artifacts |-> <<OutputDescriptor(T, Undefined)>>]>>
                   [] OTHER -> <<>>
  IN  [base EXCEPT
         !.metadata.hasAnnotations = (variation # "noAnnotations"),
         !.metadata.annotations.inputArtifacts =
            <<[task |-> T, artifacts |-> descriptors]>>,
         !.metadata.annotations.outputArtifacts = outputs,
         !.spec.tasks = [i \in DOMAIN base.spec.tasks |->
                           [base.spec.tasks[i] EXCEPT
                              !.cacheEnabled = IF base.spec.tasks[i].name = P
                                               THEN labelP ELSE labelOthers]]]

ArtifactDocuments ==
  {ArtifactDocument(T, P, labelP, labelOthers, kindT, variation, descriptors) :
     <<T, P, labelP, labelOthers, kindT, variation, descriptors>> \in
       TaskNames \X TaskNames \X {Undefined, LabelTrue, LabelFalse}
         \X {Undefined, LabelTrue}
         \X {"none", "succeeded", "failed", "customRun"}
         \X ArtifactVariations
         \X UNION {DescriptorLists({P, UndeclaredName}, MaxArtifacts) : P \in TaskNames}}

InitArtifacts ==
  /\ workflow \in ArtifactDocuments
  /\ nodeId \in {n : n \in TaskNames} \cup {PodOf(n) : n \in TaskNames}
  /\ cachedPipelineRun \in {Undefined, <<>>, CachedRun}
  /\ artifacts = NoArtifacts
  /\ pc = "start"
  /\ graph = EmptyGraph
  /\ statusMap = <<>>
  /\ conditionTasks = {}
  /\ paramString = <<>>
  /\ decoded = EmptyReference

GetNodeInputOutputArtifacts ==
  /\ pc = "start"
  /\ \E r \in {NodeInputOutputArtifacts(workflow, nodeId, cachedPipelineRun)} :
         /\ artifacts' = [inputArtifacts |-> r.inputArtifacts,
                          outputArtifacts |-> r.outputArtifacts]
         /\ pc' = IF r.raised THEN "raised" ELSE "returned"
  /\ UNCHANGED <<workflow, graph, statusMap, conditionTasks, paramString, decoded,
                 nodeId, cachedPipelineRun>>

NextArtifacts == GetNodeInputOutputArtifacts

SpecArtifacts == InitArtifacts /\ [][NextArtifacts]_vars

----------------------------------------------------------------------------
(* What the claims speak of, read off the state after the call. *)

Declared == {DeclaredTasks(workflow)[i] : i \in DOMAIN DeclaredTasks(workflow)}

\* The task has an indexed run record.
Indexed(n) == n \in DOMAIN statusMap

IndexedRecord(n) == Get(workflow, statusMap, n)

\* Pod name if present and non-empty, else task name.
Identity(n) ==
  IF Indexed(n) /\ Truthy(IndexedRecord(n).status.podName)
  THEN IndexedRecord(n).status.podName
  ELSE n

\* The first recorded condition says the run succeeded: the status read
\* from it is a terminal success, as for output artifacts (line 458).
Success(n) ==
  /\ Indexed(n)
  /\ IndexedRecord(n).status.hasConditions
  /\ IndexedRecord(n).status.conditions # <<>>
  /\ IndexedRecord(n).status.conditions[1].type = "Succeeded"
  /\ IndexedRecord(n).status.conditions[1].reason
       \in {NodePhase_SUCCEEDED, NodePhase_COMPLETED}

\* The upstream tasks a list of parameter bindings refers to.
BindingRefs(params) ==
  {decodeParam(params[i].value).task :
     i \in {j \in DOMAIN params : /\ params[j].value # Undefined
                                  /\ Truthy(decodeParam(params[j].value).task)}}

\* The upstream tasks a task refers to through success-gated references:
\* its parameter bindings, its condition objects' bindings, its runAfter list.
GatedRefs(task) ==
  BindingRefs(task.params)
    \cup UNION {BindingRefs(task.conditions[i].params) : i \in DOMAIN task.conditions}
    \cup {task.runAfter[i] : i \in DOMAIN task.runAfter}

\* ... through its when-guards.
WhenRefs(task) ==
  {decodeParam(task.when[i].input).task :
     i \in {j \in DOMAIN task.when : /\ task.when[j].input # Undefined
                                     /\ Truthy(decodeParam(task.when[j].input).task)}}

\* ... through the arguments of an any-task step: an entry of the list that
\* follows --taskList, or the results_<task>_output marker of the expression
\* that follows -c.
AnyTaskRefs(task) ==
  IF ~(task.hasArgs /\ task.command0 = AnyTask) THEN {}
  ELSE {n \in TaskNames :
          \E i \in 2..Len(task.args) :
            \/ /\ task.args[i - 1] = TaskListFlag
               /\ \E k \in DOMAIN Split(task.args[i], ",") : Split(task.args[i], ",")[k] = n
            \/ /\ task.args[i - 1] = ConditionFlag
               /\ IndexOf(task.args[i], ResultsMarker \o n \o OutputMarker) # -1}

\* The task gets a node: it has a run record, or a when-guard on a task that has.
Materialized(task) ==
  Indexed(task.name) \/ \E n \in WhenRefs(task) : Indexed(n)

(* C1: an edge that comes from a parameter binding (of the task or of one of
   its condition objects) or from a runAfter entry is in the returned graph
   only if the referenced parent's first condition is a success condition; a
   parent that failed or is still running gives no such edge. *)
C1_GatedEdgeOnlyFromSuccess ==
  pc = "returned" =>
    \A task \in Declared : \A n \in GatedRefs(task) \ (WhenRefs(task) \cup AnyTaskRefs(task)) :
      (/\ Indexed(n)
       /\ <<IndexedRecord(n).status.podName, Identity(task.name)>> \in graph.edges)
      => Success(n)

(* C2, as claimed: every when-guard or any-task reference of a declared task
   T to a task P that has an indexed run record gives the edge (identity of
   P, identity of T), whether or not T itself has a run record. *)
C2_UngatedEdgeAlways ==
  pc = "returned" =>
    \A task \in Declared : \A n \in WhenRefs(task) \cup AnyTaskRefs(task) :
      Indexed(n) => <<Identity(n), Identity(task.name)>> \in graph.edges

(* C2, amended: a when-guard reference to an indexed P always gives the edge;
   an any-task reference to an indexed P gives it when T itself gets a node
   (T has a run record, or a when-guard on an indexed task). *)
C2_UngatedEdgeOfMaterialized ==
  pc = "returned" =>
    \A task \in Declared :
      /\ \A n \in WhenRefs(task) :
           Indexed(n) => <<Identity(n), Identity(task.name)>> \in graph.edges
      /\ \A n \in AnyTaskRefs(task) :
           Indexed(n) /\ Materialized(task)
             => <<Identity(n), Identity(task.name)>> \in graph.edges

\* A consumer without a run record, through a when-guard and an any-task
\* list, has its edge from a parent that has not succeeded.
C2_Witness ==
  /\ pc = "returned"
  /\ \E task \in Declared : \E n \in WhenRefs(task) \cap AnyTaskRefs(task) :
       /\ ~Indexed(task.name)
       /\ Indexed(n) /\ ~Success(n)
       /\ <<Identity(n), task.name>> \in graph.edges

\* The orders the declared tasks can be listed in.
Orders(tasks) ==
  {[i \in DOMAIN tasks |-> tasks[f[i]]] : f \in Permutations(DOMAIN tasks)}

(* C3: whatever order the declared tasks (tasks followed by finally tasks)
   are listed in, createRuntimeGraph returns the same nodes, with the same
   label and status colouring each, and the same edges; it raises in one
   order only if it raises in every order. *)
C3_OrderIndependent ==
  [][pc = "start" /\ pc' # "start" =>
       \A tasks \in Orders(DeclaredTasks(workflow)) :
         LET r == RuntimeGraphOver(workflow, tasks)
         IN  /\ r.raised <=> pc' = "raised"
             /\ ~r.raised => r.graph = graph']_vars

\* A graph of two task nodes and an edge between them was returned.
C3_Witness ==
  /\ pc = "returned"
  /\ \E v, w \in DOMAIN graph.nodes :
       /\ v # w
       /\ graph.nodes[v].committed /\ graph.nodes[w].committed
       /\ <<v, w>> \in graph.edges

\* The status document carries no run records: status is {}, or it has
\* neither a taskRuns nor a runs entry.
NoRunRecords ==
  \/ workflow.status.keys = {}
  \/ "taskRuns" \notin workflow.status.keys /\ "runs" \notin workflow.status.keys

C5_IdentityInjective ==
  pc = "returned" =>
    \A t1, t2 \in Declared :
      Materialized(t1) /\ Materialized(t2) =>
        /\ t1.name # t2.name => Identity(t1.name) # Identity(t2.name)
        /\ Identity(t1.name) \in DOMAIN graph.nodes
        /\ graph.nodes[Identity(t1.name)].committed
        /\ graph.nodes[Identity(t1.name)].label = t1.name

\* Two tasks got nodes, one under its pod name and one, whose record has an
\* empty pod name, under its task name.
C5_Witness ==
  /\ pc = "returned"
  /\ \E t1, t2 \in Declared :
       /\ t1.name # t2.name
       /\ Indexed(t1.name) /\ Indexed(t2.name)
       /\ Identity(t1.name) = IndexedRecord(t1.name).status.podName
       /\ IndexedRecord(t2.name).status.podName = <<>>
       /\ graph.nodes[t2.name].committed

\* The entries of a list that carry the name n.
Named(list, n) == {i \in DOMAIN list : list[i].name = n}

(* C6: after createRuntimeGraph, for a task B that has a run record with a
   recorded parameter list and a binding of B that refers to result r of task
   A: if A's first condition is success and A records r with value v, the
   recorded entry of the binding's name has value v and the graph has the
   edge from A to B; if A has not succeeded, the recorded entry is not
   replaced by the resolved value of r. *)
C6_WriteBackOfResolvedValues ==
  pc = "returned" =>
    \A B \in Declared :
      (Indexed(B.name) /\ IndexedRecord(B.name).status.hasParams) =>
        \A i \in {j \in DOMAIN B.params : B.params[j].value # Undefined} :
          LET ref == decodeParam(B.params[i].value)
              recorded == IndexedRecord(B.name).status.params
          IN  (Truthy(ref.task) /\ Indexed(ref.task)) =>
                \A k \in Named(IndexedRecord(ref.task).status.taskResults, ref.param) :
                  LET v == IndexedRecord(ref.task).status.taskResults[k].value
                  IN  /\ Success(ref.task) =>
                           /\ \A j \in Named(recorded, B.params[i].name) :
                                recorded[j].value = v
                           /\ Truthy(IndexedRecord(ref.task).status.podName) =>
                                <<Identity(ref.task), Identity(B.name)>> \in graph.edges
                      /\ ~Success(ref.task) =>
                           \A j \in Named(recorded, B.params[i].name) :
                             recorded[j].value # v

(* C7: createRuntimeGraph never raises on a status document that has run
   records, whichever optional fields are missing from it. *)
C7_AbsenceNeverRaises == pc # "raised"

\* The run records of both collections, with f applied to each.
MapRecords(wf, f(_)) ==
  [wf EXCEPT !.status.taskRuns = [i \in DOMAIN @ |-> f(@[i])],
             !.status.runs = [i \in DOMAIN @ |-> f(@[i])]]

\* A run record without the values of its recorded parameter list.
WithoutValues(rec) ==
  [rec EXCEPT !.status.params = [i \in DOMAIN @ |-> [@[i] EXCEPT !.value = Undefined]]]

\* A run record with the taskRunId field set to the record's key.
WithRunId(rec) == [rec EXCEPT !.taskRunId = rec.id]

(* C9, as claimed: a call changes nothing of the status document but the
   values of entries of run records' recorded parameter lists; the set of
   fields of each run record is as before. *)
C9_FrameValuesOnly ==
  [][MapRecords(workflow', WithoutValues) = MapRecords(workflow, WithoutValues)]_vars

(* C9, amended: a call changes nothing of the status document but the values
   of entries of run records' recorded parameter lists and, unless it returns
   early for a status without task runs, the field taskRunId that it adds to
   every run record, holding the record's key. *)
C9_FrameValuesAndRunIds ==
  [][\/ MapRecords(workflow', WithoutValues) = MapRecords(workflow, WithoutValues)
     \/ MapRecords(workflow', WithoutValues)
          = MapRecords(MapRecords(workflow, WithRunId), WithoutValues)]_vars

\* A call returned having stamped a run record and resolved a recorded value.
C9_Witness ==
  /\ pc = "returned"
  /\ \E i \in DOMAIN workflow.status.taskRuns :
       /\ workflow.status.taskRuns[i].taskRunId = workflow.status.taskRuns[i].id
       /\ \E j \in DOMAIN workflow.status.taskRuns[i].status.params :
            workflow.status.taskRuns[i].status.params[j].value = ResultValue

\* '$(params.<name>)'
IsPipelineParamRef(s) ==
  Len(s) >= 10 /\ SubSeq(s, 1, 9) = ParamsPrefix /\ s[Len(s)] = ")"

\* The positions of the dots of s.
Dots(s) == {i \in DOMAIN s : s[i] = "."}

\* A dotted upstream-result reference: '$(' <segment> '.' <task> ... '.' <result> ')'
IsUpstreamResultRef(s) ==
  /\ ~IsPipelineParamRef(s)
  /\ Len(s) >= 3 /\ SubSeq(s, 1, 2) = DollarParen /\ s[Len(s)] = ")"
  /\ Dots(s) # {}

\* The text between the first dot of s and the next (or the end);
\* undefined when s has no dot.
SecondSegment(s) ==
  IF Dots(s) = {} THEN Undefined
  ELSE LET first == CHOOSE i \in Dots(s) : \A j \in Dots(s) : i <= j
           later == {j \in Dots(s) : j > first} \cup {Len(s) + 1}
       IN  SubSeq(s, first + 1, (CHOOSE j \in later : \A k \in later : j <= k) - 1)

\* The text after the last dot of s, without its last character.
LastSegmentStripped(s) ==
  LET ends == Dots(s) \cup {0}
  IN  SubSeq(s, (CHOOSE i \in ends : \A j \in ends : j <= i) + 1, Len(s) - 1)

(* C8, as claimed: decodeParam recognises exactly two shapes.  A string that
   is neither a pipeline-parameter reference nor a dotted upstream-result
   reference decodes to the empty reference; a pipeline-parameter reference
   to no task and the name between the delimiters; an upstream-result
   reference to its second dotted segment and its last dotted segment
   without the closing delimiter. *)
C8_ExactlyTwoShapes ==
  pc = "returned" =>
    /\ (~IsPipelineParamRef(paramString) /\ ~IsUpstreamResultRef(paramString))
         => decoded = EmptyReference
    /\ IsPipelineParamRef(paramString)
         => /\ ~Truthy(decoded.task)
            /\ paramString = ParamsPrefix \o decoded.param \o CloseParen
    /\ IsUpstreamResultRef(paramString)
         => /\ decoded.task = SecondSegment(paramString)
            /\ decoded.param = LastSegmentStripped(paramString)

\* The task getNodeInputOutputArtifacts selected for nodeId, and its declared
\* input artifact descriptors.
Selected == SelectedTask(workflow, nodeId).taskName

SelectedDescriptors ==
  ArtifactsOf(workflow.metadata.annotations.inputArtifacts, Selected)

\* The producer is declared with the cache label 'true'.
CacheEnabled(producer) ==
  \E i \in DOMAIN workflow.spec.tasks :
     /\ workflow.spec.tasks[i].name = producer
     /\ workflow.spec.tasks[i].cacheEnabled = LabelTrue

CachedRunSupplied == cachedPipelineRun # Undefined /\ cachedPipelineRun # <<>>

\* 'artifacts/<runId>/<parentTask>/<artifactName>.tgz', the artifact name
\* being the descriptor's name without its '<parentTask>-' prefix.
ArtifactKey(runId, descriptor) ==
  ArtifactsPrefix \o runId \o Slash \o descriptor.parent_task \o Slash
    \o SubSeq(descriptor.name, Len(descriptor.parent_task) + 2, Len(descriptor.name))
    \o TgzSuffix

(* C10: for every input artifact descriptor of the selected task,
   getNodeInputOutputArtifacts returns the key
   'artifacts/<runId>/<parentTask>/<artifactName>.tgz' whose <runId> is the
   supplied cached run exactly when the producing task is declared with the
   cache label 'true' and a cached run is supplied, and the name of the
   current run in every other case. *)
C10_CacheSubstitution ==
  (/\ pc = "returned"
   /\ workflow.metadata.hasAnnotations
   /\ workflow.status.keys \cap {"taskRuns", "runs"} # {}
   /\ Selected # <<>>) =>
    /\ Len(artifacts.inputArtifacts) = Len(SelectedDescriptors)
    /\ \A i \in DOMAIN SelectedDescriptors :
         LET d == SelectedDescriptors[i]
         IN  /\ artifacts.inputArtifacts[i].name = d.name
             /\ artifacts.inputArtifacts[i].key =
                  ArtifactKey(IF CacheEnabled(d.parent_task) /\ CachedRunSupplied
                              THEN cachedPipelineRun ELSE workflow.metadata.name, d)

\* One call returned a substituted key for a cache-enabled producer next to a
\* current-run key for a producer that is not cache-enabled.
C10_Witness ==
  /\ pc = "returned"
  /\ CachedRunSupplied
  /\ \E i, j \in DOMAIN artifacts.inputArtifacts :
       /\ i \in DOMAIN SelectedDescriptors /\ j \in DOMAIN SelectedDescriptors
       /\ CacheEnabled(SelectedDescriptors[i].parent_task)
       /\ ~CacheEnabled(SelectedDescriptors[j].parent_task)
       /\ artifacts.inputArtifacts[i].key =
            ArtifactKey(cachedPipelineRun, SelectedDescriptors[i])
       /\ artifacts.inputArtifacts[j].key =
            ArtifactKey(workflow.metadata.name, SelectedDescriptors[j])

\* The returned graph has a node committed for the task: a node under the
\* task's identity that setNode labelled with the task's name.
NodeCommitted(task) ==
  /\ Identity(task.name) \in DOMAIN graph.nodes
  /\ graph.nodes[Identity(task.name)].committed
  /\ graph.nodes[Identity(task.name)].label = task.name

\* The identity is an end of no edge and names no node.
Untouched(id) ==
  /\ id \notin DOMAIN graph.nodes
  /\ \A e \in graph.edges : e[1] # id /\ e[2] # id

\* The document holds a run record of the task, standard or custom, whose
\* status is present: the record the index is built from.
Recorded(n) ==
  \E coll \in {"taskRuns", "runs"} :
    \E i \in DOMAIN workflow.status[coll] :
      /\ workflow.status[coll][i].hasStatus
      /\ workflow.status[coll][i].pipelineTaskName = n

(* C11: in the graph createRuntimeGraph returns for a document with run
   records, a declared task (of tasks or finally) has a committed node exactly
   when it has a run record to index or a when-guard whose input decodes to a
   reference to a task that has one; a task with neither has no node and is
   an end of no edge. *)
C11_MaterializationRule ==
  (pc = "returned" /\ ~NoRunRecords) =>
    \A task \in Declared :
      LET materialized == Recorded(task.name) \/ \E n \in WhenRefs(task) : Recorded(n)
      IN  /\ NodeCommitted(task) <=> materialized
          /\ ~materialized => Untouched(task.name)

\* The task's name is listed in status.skippedTasks.
Skipped(n) == \E k \in DOMAIN workflow.status.skippedTasks : workflow.status.skippedTasks[k] = n

\* The status the node of the task was given (the node's icon is drawn from it).
ComputedStatus(task) == graph.nodes[Identity(task.name)].icon

\* The run record of the task records no conditions: its status has no
\* conditions list, or an empty one.
NoConditionsRecorded(n) ==
  \/ ~IndexedRecord(n).status.hasConditions
  \/ IndexedRecord(n).status.conditions = <<>>

(* C12: the status computed for a materialized task is, when the task has a
   run record, the reason of the record's first condition, and pending when
   the record has no conditions recorded, whether or not the task is listed
   as skipped; when the task has a node only through a when-guard, it is
   condition-check-failed if the task is listed in the document's skipped
   tasks and pending otherwise. *)
C12_NodeStatusRule ==
  \A task \in Declared :
    /\ (pc = "returned" /\ NodeCommitted(task)) =>
         ComputedStatus(task) =
           IF Indexed(task.name)
           THEN IF NoConditionsRecorded(task.name) THEN NodePhase_PENDING
                ELSE IndexedRecord(task.name).status.conditions[1].reason
           ELSE IF Skipped(task.name) THEN NodePhase_CONDITIONCHECKFAILED
           ELSE NodePhase_PENDING
    /\ (/\ pc # "start"
        /\ \A t \in Declared : t = PlainTask(t.name)
        /\ Indexed(task.name) /\ NoConditionsRecorded(task.name)) =>
         pc = "returned" /\ NodeCommitted(task)

\* The run records in processing order, each with its place in the
\* document: all standard task runs, then all custom runs.
ProcessingOrder ==
  [i \in DOMAIN workflow.status.taskRuns |-> [coll |-> "taskRuns", idx |-> i]]
    \o [i \in DOMAIN workflow.status.runs |-> [coll |-> "runs", idx |-> i]]

RecordAt(place) == workflow.status[place.coll][place.idx]

\* The places in processing order that hold a status-bearing record of n.
StatusBearing(n) ==
  {k \in DOMAIN ProcessingOrder :
     /\ RecordAt(ProcessingOrder[k]).hasStatus
     /\ RecordAt(ProcessingOrder[k]).pipelineTaskName = n}

\* createRuntimeGraph got past its early return and built the index.
IndexBuilt == pc # "start" /\ ~NoStatusYet(workflow)

(* C13: the index createRuntimeGraph builds is keyed by owning task name: a
   name is a key exactly when some run record of that name has a status, and
   it is bound to the last such record in processing order (all standard task
   runs, then all custom runs); a record without a status is never indexed
   and displaces nothing, and a custom run record with a status wins over a
   standard one of the same name. *)
C13_IndexHoldsLastStatusBearing ==
  IndexBuilt =>
    /\ \A n \in DOMAIN statusMap : StatusBearing(n) # {}
    /\ \A k \in DOMAIN ProcessingOrder :
         LET n == RecordAt(ProcessingOrder[k]).pipelineTaskName
         IN  StatusBearing(n) # {} =>
               /\ n \in DOMAIN statusMap
               /\ statusMap[n] =
                    ProcessingOrder[CHOOSE i \in StatusBearing(n) :
                                      \A j \in StatusBearing(n) : j <= i]
               /\ RecordAt(statusMap[n]).hasStatus

\* The index was built from a document in which a task name has a
\* status-bearing record in both collections, and holds the custom one.
C13_Witness ==
  /\ IndexBuilt
  /\ \E n \in DOMAIN statusMap :
       /\ statusMap[n].coll = "runs"
       /\ \E i \in DOMAIN workflow.status.taskRuns :
            /\ workflow.status.taskRuns[i].pipelineTaskName = n
            /\ workflow.status.taskRuns[i].hasStatus

\* The identities under which a declared task's node was committed.
CommittedIdentities == {Identity(task.name) : task \in {t \in Declared : NodeCommitted(t)}}

(* C14: in a returned graph where every indexed run record belongs to a
   declared task, both ends of every edge are identities under which a
   materialized task's node was committed; the parent end of a parameter or
   runAfter edge is the identity of the parent's own node, also for a custom
   run record that has no pod name. *)
C14_NoDanglingEdgeEnds ==
  (/\ pc = "returned"
   /\ \A n \in DOMAIN statusMap : \E task \in Declared : task.name = n) =>
    \A e \in graph.edges :
      e[1] \in CommittedIdentities /\ e[2] \in CommittedIdentities

\* The declaration of the task has something edges are produced from:
\* parameter bindings, condition objects, when-guards, any-task arguments or
\* a runAfter list.
ProducesEdges(task) ==
  \/ task.params # <<>> \/ task.conditions # <<>> \/ task.when # <<>>
  \/ task.runAfter # <<>>
  \/ task.hasArgs /\ task.command0 = AnyTask

\* The edge is one that processing the task accounts for: its child is the
\* identity of the task's node, and its parent is the pod name or the task
\* name of a task with a run record.
EdgeOf(e, task) ==
  /\ NodeCommitted(task)
  /\ ProducesEdges(task)
  /\ e[2] = Identity(task.name)
  /\ \E n \in DOMAIN statusMap : e[1] \in {IndexedRecord(n).status.podName, n}

(* C15: every edge of the returned graph has as its child the identity under
   which the node of a task is committed, the task being one that declares
   parameter bindings, condition objects, when-guards, any-task arguments or
   a runAfter list to produce edges from; no edge has a condition object's
   reference name, or a task that declares none of these, as its child. *)
C15_EdgeChildIsProducingTask ==
  pc = "returned" =>
    \A e \in graph.edges : \E task \in Declared : EdgeOf(e, task)

\* A graph was returned with an edge that a parameter binding of a task's
\* condition object produced.
C15_Witness ==
  /\ pc = "returned"
  /\ \E task \in Declared :
       /\ task.conditions # <<>>
       /\ \E e \in graph.edges : EdgeOf(e, task)

====
